---- MODULE Spec2Model ----
(***************************************************************************)
(* State-machine model of the CloudsenseElasticCancelMACDRequest lambda:   *)
(* lambda_function/app.py (lambda_handler, process_macd_cancellation and   *)
(* their helpers), help_center_connection.py and kayako_connection.py.     *)
(*                                                                         *)
(* The database is two tables of one tenant schema, each with a persisted  *)
(* content and the content seen inside the open transaction.  A Python     *)
(* value that may be None is modelled with NULL for None.                  *)
(***************************************************************************)
EXTENDS Integers, Sequences, FiniteSets, TLC

\* ------------------------------------------------------------------ bounds
MaxMacd == 2        \* rows of macd_request
MaxBasket == 2      \* distinct non-null basket ids
MaxOrder == 4       \* rows of order_request
MaxInvocations == 2 \* invocations of lambda_handler followed in one process

NULL == 0           \* SQL NULL / Python None for an id column

VARIABLES
    \* database
    order_request,      \* persisted rows of <schema>.order_request
    macd_request,       \* persisted rows of <schema>.macd_request
    tx_order,           \* order_request as seen inside the open transaction
    tx_macd,            \* macd_request as seen inside the open transaction
    dblog,              \* calls issued on the connection and cursor, in order
    order0,             \* order_request before the run
    macd0,              \* macd_request before the run
    \* process_macd_cancellation
    ppc,                \* position inside process_macd_cancellation
    conn,               \* "None" | "open" | "closed"
    cur,                \* "None" | "open" | "closed"
    org_id,             \* argument
    subscriptions,      \* argument
    test_mode,          \* argument
    rows,               \* cur.fetchall()
    eligible_records,
    basket_ids,
    macd_ids,
    result,
    caught,             \* the exception the except clause caught ("none" if none)
    exc,                \* the exception leaving the function ("none" if none)
    \* lambda_handler
    hpc,                \* position inside lambda_handler
    PARAMETERS,         \* the module-level PARAMETERS
    environ,            \* os.environ['databases']
    body_is_dict,       \* whether the parsed body is a dict
    region,
    case_id,
    kayako_agent,       \* hc_agent.kayako_agent: "None" | "agent"
    notes,              \* the calls of hc_agent.write_internal_note, in order
    note_for,           \* which branch of the handler is posting: "success" | "failure"
    tklog,              \* HTTP requests sent to the ticketing service, in order
    attempts,           \* KayakoConnect.put: attempts
    response,           \* what lambda_handler returned
    hexc,               \* the exception caught by the outermost except ("none" if none)
    \* KayakoConnect.get / post / put, one call
    kpc,                \* "idle" | "loop" | "returned" | "raised"
    method,             \* "get" | "post" | "put"
    is_shim,            \* argument
    received,           \* what each HTTP attempt of the call got, in order
    kret,               \* the value the call returned
    \* the process that serves the invocations
    invocation,         \* the number of the invocation being served
    loads,              \* how many times load_parameters has returned a value
    \* two invocations compared
    run,                \* 0: a single invocation; 1, 2: first and second of a pair
    env,                \* what the environment did in the first invocation
    first               \* the outcome of the first invocation

dbVars == <<order_request, macd_request, tx_order, tx_macd, dblog, order0, macd0>>
argVars == <<org_id, subscriptions, test_mode>>
procVars == <<ppc, conn, cur, rows, eligible_records, basket_ids, macd_ids,
              result, caught, exc>>
hVars == <<hpc, PARAMETERS, environ, body_is_dict, region, case_id, kayako_agent,
           notes, note_for, tklog, attempts, response, hexc>>
kVars == <<kpc, method, is_shim, received, kret>>
lifeVars == <<invocation, loads>>
pairVars == <<run, env, first>>
vars == <<dbVars, argVars, procVars, hVars, kVars, lifeVars, pairVars>>

\* ------------------------------------------------------------ Python values
\* A JSON value of the request, tagged with its Python type.
\* A string is the sequence of its characters.
PyNone == [kind |-> "none", val |-> <<>>]
PyStr(s) == [kind |-> "str", val |-> s]
PyInt == [kind |-> "int", val |-> <<>>]          \* some non-zero integer
PyBool(b) == [kind |-> "bool", val |-> <<b>>]
PyList(l) == [kind |-> "list", val |-> l]

\* bool(v)
PyTruthy(v) ==
    CASE v.kind = "none" -> FALSE
      [] v.kind = "bool" -> v.val[1]
      [] v.kind = "int" -> TRUE
      [] OTHER -> v.val # <<>>

\* a or b
PyOr(a, b) == IF PyTruthy(a) THEN a ELSE b

UpperChar(c) ==
    CASE c = "e" -> "E" [] c = "u" -> "U" [] c = "x" -> "X" [] c = "t" -> "T"
      [] c = "r" -> "R" [] c = "d" -> "D" [] c = "a" -> "A" [] OTHER -> c
LowerChar(c) ==
    CASE c = "E" -> "e" [] c = "U" -> "u" [] c = "X" -> "x" [] c = "T" -> "t"
      [] c = "R" -> "r" [] c = "D" -> "d" [] c = "A" -> "a" [] OTHER -> c
Upper_AsGiven(str) == str
\* str.upper(), str.lower()
Upper(str) == [i \in DOMAIN str |-> UpperChar(str[i])]
Lower(str) == [i \in DOMAIN str |-> LowerChar(str[i])]

\* ------------------------------------------------------------ pure helpers
Range(s) == {s[i] : i \in DOMAIN s}

RECURSIVE FromKeys(_, _)
\* list(dict.fromkeys(s)): duplicates removed, first occurrence kept.
FromKeys(s, seen) ==
    IF s = <<>> THEN <<>>
    ELSE IF Head(s) \in seen THEN FromKeys(Tail(s), seen)
         ELSE <<Head(s)>> \o FromKeys(Tail(s), seen \cup {Head(s)})

Truthy_NoneToo(v) == TRUE
\* A Python id value is truthy unless it is None.
Truthy(v) == v # NULL

\* sfdc_id LIKE '<p>%'
Like(sfdc_id, p) ==
    /\ Len(p) <= Len(sfdc_id)
    /\ SubSeq(sfdc_id, 1, Len(p)) = p

\* The subscription table of the tenant schema.
SubscriptionTable ==
    << [id |-> 1, sfdc_id |-> <<"a", "x">>],
       [id |-> 2, sfdc_id |-> <<"b">>] >>

\* SELECT id FROM subscription WHERE sfdc_id LIKE %s OR ...
MatchingSubscriptionIds(like_patterns) ==
    { SubscriptionTable[i].id : i \in
        { j \in DOMAIN SubscriptionTable :
            \E k \in DOMAIN like_patterns :
                Like(SubscriptionTable[j].sfdc_id, like_patterns[k]) } }

\* SELECT id, basket_id, status FROM macd_request WHERE subscription_id IN (...)
QueryMacd(table, like_patterns) ==
    LET T(r) == r.subscription_id \in MatchingSubscriptionIds(like_patterns)
        found == SelectSeq(table, T)
    IN  [i \in DOMAIN found |->
            [id |-> found[i].id, basket_id |-> found[i].basket_id,
             status |-> found[i].status]]

Eligible_StatusIgnored(record) == TRUE
\* status == 'posted'
Eligible(record) == record.status = "posted"

\* UPDATE order_request SET status = 'Error' WHERE basket_id IN (ids)
UpdateOrderRows(table, ids) ==
    [i \in DOMAIN table |->
        IF table[i].basket_id # NULL /\ table[i].basket_id \in Range(ids)
        THEN [table[i] EXCEPT !.status = "Error"] ELSE table[i]]

OrderRowcount(table, ids) ==
    Cardinality({i \in DOMAIN table :
        table[i].basket_id # NULL /\ table[i].basket_id \in Range(ids)})

UpdateMacdRows_Untouched(table, ids) == table
\* UPDATE macd_request SET status = 'posted1' WHERE id IN (ids)
UpdateMacdRows(table, ids) ==
    [i \in DOMAIN table |->
        IF table[i].id # NULL /\ table[i].id \in Range(ids)
        THEN [table[i] EXCEPT !.status = "posted1"] ELSE table[i]]

MacdRowcount(table, ids) ==
    Cardinality({i \in DOMAIN table :
        table[i].id # NULL /\ table[i].id \in Range(ids)})

\* The result dictionary process_macd_cancellation starts from.
EmptyResult ==
    [total_found |-> 0, eligible_count |-> 0, skipped_wrong_status |-> 0,
     order_requests_updated |-> 0, macd_requests_updated |-> 0,
     committed |-> FALSE, macd_records |-> <<>>, skipped_records |-> <<>>,
     updated_basket_ids |-> <<>>, updated_macd_ids |-> <<>>]

\* ---------------------------------------------------------- the SQL text
RECURSIVE LStrip(_, _)
LStrip(str, c) == IF str # <<>> /\ Head(str) = c THEN LStrip(Tail(str), c) ELSE str

RECURSIVE RStrip(_, _)
RStrip(str, c) ==
    IF str # <<>> /\ str[Len(str)] = c
    THEN RStrip(SubSeq(str, 1, Len(str) - 1), c) ELSE str

\* str.strip(c)
Strip(str, c) == RStrip(LStrip(str, c), c)

\* schema_name = f"org_{clean_org_id}", clean_org_id = org_id.strip('"').lower()
SchemaName(o) == <<"org_">> \o Lower(Strip(o.val, "\""))

\* The table expressions the text of a statement holds after FROM or UPDATE:
\* {schema_name}.<table>, the schema name put into the text as it is.
StatementTables(statement, o) ==
    CASE statement = "SELECT" ->
            {SchemaName(o) \o <<".", "macd_request">>,
             SchemaName(o) \o <<".", "subscription">>}
      [] statement = "UPDATE order_request" ->
            {SchemaName(o) \o <<".", "order_request">>}
      [] statement = "UPDATE macd_request" ->
            {SchemaName(o) \o <<".", "macd_request">>}
      [] OTHER -> {}

RECURSIVE SplitOn(_, _)
\* The pieces of a text between the occurrences of a separator.
SplitOn(str, sep) ==
    IF str = <<>> THEN << <<>> >>
    ELSE LET rest == SplitOn(Tail(str), sep)
         IN  IF Head(str) = sep THEN << <<>> >> \o rest
             ELSE << <<Head(str)>> \o Head(rest) >> \o Tail(rest)

\* The schemas the server looks into for a table expression: a comma separates
\* tables, and in each the schema is what stands before the first dot.
SchemasOf(expression) ==
    {Head(SplitOn(SplitOn(expression, ",")[i], ".")) :
        i \in DOMAIN SplitOn(expression, ",")}

\* ------------------------------------------------------------ initial data
\* Row i of macd_request: its id is i or NULL, it references subscription 1
\* (odd rows) or 2 (even rows).
MacdRows(i) ==
    [id : {NULL, i}, basket_id : 0..MaxBasket, status : {"posted", "declined"},
     subscription_id : {((i - 1) % 2) + 1}]

MacdTables(n) ==
    {t \in [1..n -> UNION {MacdRows(i) : i \in 1..n}] :
        \A i \in 1..n : t[i] \in MacdRows(i)}

\* order_request: row i belongs to basket i mod (MaxBasket + 1), NULL included;
\* the last row was already in status Error.
OrderTable ==
    [i \in 1..MaxOrder |->
        [basket_id |-> i % (MaxBasket + 1),
         status |-> IF i = MaxOrder THEN "Error" ELSE "New"]]

SubscriptionInputs == { << <<"a">> >>, << <<"b">> >>, << <<"b">>, <<"a">> >> }
OrgIds == { PyStr(<<"0", "D">>), PyInt }
\* org_id values of a run of process_macd_cancellation: also one in double
\* quotes and one that holds a dot and a comma.
ProcOrgIds ==
    OrgIds \cup { PyStr(<<"\"", "0", "D", "\"">>),
                  PyStr(<<"a", ".", "t", ",", "org_", "b">>) }
NoResponse ==
    [statusCode |-> 0, message |-> [kind |-> "none", what |-> <<>>], extra |-> <<>>]

\* What the environment did in an invocation, beside the ticketing service.
NoEnv ==
    [load |-> "ok", databases |-> "none", body |-> "dict", fields |-> "none",
     fault |-> "none", rollback_fault |-> FALSE]

\* The values an input of the environment may take: any of D, and in the
\* second invocation of a pair the value it took in the first.
Pick(key, D) == IF run = 2 THEN {env[key]} ELSE D

\* Whether the database step may raise.
FailChoices(step) ==
    IF run = 2
    THEN {IF step = "except_rollback" THEN env.rollback_fault ELSE env.fault = step}
    ELSE BOOLEAN

\* os.environ without a 'databases' entry.
NoDatabases == [present |-> FALSE, regions |-> <<>>, empty |-> {}, port |-> NULL]

\* PARAMETERS = None
NoParameters == [loaded |-> FALSE, keys |-> 0, databases |-> NoDatabases]

\* No call of KayakoConnect.get / post / put is being followed.
KayakoIdle ==
    /\ kpc = "idle"
    /\ method = "put"
    /\ is_shim = TRUE
    /\ received = <<>>
    /\ kret = "none"

ProcInit(table) ==
    /\ order_request = OrderTable
    /\ macd_request = table
    /\ tx_order = OrderTable
    /\ tx_macd = table
    /\ order0 = OrderTable
    /\ macd0 = table
    /\ dblog = <<>>
    /\ conn = "None"
    /\ cur = "None"
    /\ rows = <<>>
    /\ eligible_records = <<>>
    /\ basket_ids = <<>>
    /\ macd_ids = <<>>
    /\ result = EmptyResult
    /\ caught = "none"
    /\ exc = "none"
    /\ PARAMETERS = NoParameters
    /\ environ = NoDatabases
    /\ invocation = 1
    /\ loads = 0
    /\ body_is_dict = TRUE
    /\ kayako_agent = "None"
    /\ notes = <<>>
    /\ note_for = "none"
    /\ tklog = <<>>
    /\ attempts = 0
    /\ response = NoResponse
    /\ hexc = "none"
    /\ env = NoEnv
    /\ first = <<>>

\* ----------------------------------------------- process_macd_cancellation
Raise(step) ==
    /\ caught' = step
    /\ ppc' = "except"
    /\ env' = IF run = 1 THEN [env EXCEPT !.fault = step] ELSE env

NoRaise == UNCHANGED <<caught, env>>

\* conn = psycopg2.connect(**db_config)
Connect ==
    /\ ppc = "connect"
    /\ dblog' = Append(dblog, "connect")
    /\ \E f \in FailChoices("connect") :
        IF f THEN /\ Raise("connect")
                  /\ UNCHANGED <<conn, tx_order, tx_macd>>
        ELSE /\ conn' = "open"
             /\ tx_order' = order_request
             /\ tx_macd' = macd_request
             /\ ppc' = "cursor"
             /\ NoRaise
    /\ UNCHANGED <<order_request, macd_request, order0, macd0, argVars, cur, rows,
                   eligible_records, basket_ids, macd_ids, result, exc>>
    /\ UNCHANGED <<hVars, kVars, lifeVars, run, first>>

\* cur = conn.cursor()
Cursor ==
    /\ ppc = "cursor"
    /\ dblog' = Append(dblog, "cursor")
    /\ \E f \in FailChoices("cursor") :
        IF f THEN Raise("cursor") /\ UNCHANGED cur
        ELSE cur' = "open" /\ ppc' = "build" /\ NoRaise
    /\ UNCHANGED <<order_request, macd_request, tx_order, tx_macd, order0, macd0,
                   argVars, conn, rows, eligible_records, basket_ids, macd_ids,
                   result, exc>>
    /\ UNCHANGED <<hVars, kVars, lifeVars, run, first>>

\* clean_org_id = org_id.strip('"').lower(): an org_id that is no string has
\* no strip method.
BuildQuery ==
    /\ ppc = "build"
    /\ IF org_id.kind # "str" THEN Raise("build")
       ELSE ppc' = "select" /\ NoRaise
    /\ UNCHANGED <<dbVars, argVars, conn, cur, rows, eligible_records, basket_ids,
                   macd_ids, result, exc>>
    /\ UNCHANGED <<hVars, kVars, lifeVars, run, first>>

\* cur.execute(query, like_patterns); rows = cur.fetchall()
Select ==
    /\ ppc = "select"
    /\ dblog' = Append(dblog, "SELECT")
    /\ \E f \in FailChoices("select") :
        IF f THEN Raise("select") /\ UNCHANGED <<rows, result>>
        ELSE /\ rows' = QueryMacd(tx_macd, subscriptions)
             /\ result' = [result EXCEPT !.total_found = Len(rows')]
             /\ ppc' = "partition"
             /\ NoRaise
    /\ UNCHANGED <<order_request, macd_request, tx_order, tx_macd, order0, macd0,
                   argVars, conn, cur, eligible_records, basket_ids, macd_ids, exc>>
    /\ UNCHANGED <<hVars, kVars, lifeVars, run, first>>

NothingEligible_Never(records) == FALSE
\* if not eligible_records
NothingEligible(records) == records = <<>>

\* for row in rows: eligible or skipped
Partition ==
    /\ ppc = "partition"
    /\ LET NotEligible(r) == ~Eligible(r)
           el == SelectSeq(rows, Eligible)
           sk == SelectSeq(rows, NotEligible)
       IN /\ eligible_records' = el
          /\ result' = [result EXCEPT !.macd_records = el,
                                      !.skipped_records = sk,
                                      !.skipped_wrong_status = Len(sk),
                                      !.eligible_count = Len(el)]
          /\ ppc' = IF NothingEligible(el) THEN "close_early" ELSE "collect"
    /\ UNCHANGED <<dbVars, argVars, conn, cur, rows, basket_ids, macd_ids, exc>>
    /\ NoRaise
    /\ UNCHANGED <<hVars, kVars, lifeVars, run, first>>

\* basket_ids, macd_ids: truthy values of the eligible records, de-duplicated
Collect ==
    /\ ppc = "collect"
    /\ LET B == [i \in DOMAIN eligible_records |-> eligible_records[i].basket_id]
           M == [i \in DOMAIN eligible_records |-> eligible_records[i].id]
       IN /\ basket_ids' = FromKeys(SelectSeq(B, Truthy), {})
          /\ macd_ids' = FromKeys(SelectSeq(M, Truthy), {})
    /\ result' = [result EXCEPT !.updated_basket_ids = basket_ids',
                                !.updated_macd_ids = macd_ids']
    /\ ppc' = "update_order"
    /\ UNCHANGED <<dbVars, argVars, conn, cur, rows, eligible_records, exc>>
    /\ NoRaise
    /\ UNCHANGED <<hVars, kVars, lifeVars, run, first>>

InTransaction_Autocommit(persisted, updated) == updated
\* psycopg2 runs the statements of a connection inside a transaction: what a
\* statement wrote is persisted by commit alone.
InTransaction(persisted, updated) == persisted

\* if basket_ids: UPDATE order_request ...; result[...] = cur.rowcount
UpdateOrder ==
    /\ ppc = "update_order"
    /\ IF basket_ids # <<>>
       THEN /\ dblog' = Append(dblog, "UPDATE order_request")
            /\ \E f \in FailChoices("update_order") :
                IF f THEN Raise("update_order")
                          /\ UNCHANGED <<tx_order, order_request, result>>
                ELSE /\ tx_order' = UpdateOrderRows(tx_order, basket_ids)
                     /\ order_request' = InTransaction(order_request, tx_order')
                     /\ result' = [result EXCEPT !.order_requests_updated =
                                        OrderRowcount(tx_order, basket_ids)]
                     /\ ppc' = "update_macd"
                     /\ NoRaise
       ELSE /\ ppc' = "update_macd"
            /\ UNCHANGED <<dblog, tx_order, order_request, result>> /\ NoRaise
    /\ UNCHANGED <<macd_request, tx_macd, order0, macd0, argVars,
                   conn, cur, rows, eligible_records, basket_ids, macd_ids, exc>>
    /\ UNCHANGED <<hVars, kVars, lifeVars, run, first>>

\* if macd_ids: UPDATE macd_request ...; result[...] = cur.rowcount
UpdateMacd ==
    /\ ppc = "update_macd"
    /\ IF macd_ids # <<>>
       THEN /\ dblog' = Append(dblog, "UPDATE macd_request")
            /\ \E f \in FailChoices("update_macd") :
                IF f THEN Raise("update_macd")
                          /\ UNCHANGED <<tx_macd, macd_request, result>>
                ELSE /\ tx_macd' = UpdateMacdRows(tx_macd, macd_ids)
                     /\ macd_request' = InTransaction(macd_request, tx_macd')
                     /\ result' = [result EXCEPT !.macd_requests_updated =
                                        MacdRowcount(tx_macd, macd_ids)]
                     /\ ppc' = "commit"
                     /\ NoRaise
       ELSE /\ ppc' = "commit"
            /\ UNCHANGED <<dblog, tx_macd, macd_request, result>> /\ NoRaise
    /\ UNCHANGED <<order_request, tx_order, order0, macd0, argVars,
                   conn, cur, rows, eligible_records, basket_ids, macd_ids, exc>>
    /\ UNCHANGED <<hVars, kVars, lifeVars, run, first>>

ShouldCommit_Always(tm) == TRUE
\* if test_mode: rollback else: commit
ShouldCommit(tm) == ~tm

\* conn.rollback() / conn.commit(); result['committed']
CommitOrRollback ==
    /\ ppc = "commit"
    /\ IF ShouldCommit(test_mode)
       THEN /\ dblog' = Append(dblog, "commit")
            /\ \E f \in FailChoices("commit") :
                IF f THEN /\ Raise("commit")
                          /\ UNCHANGED <<order_request, macd_request, result>>
                ELSE /\ order_request' = tx_order
                     /\ macd_request' = tx_macd
                     /\ result' = [result EXCEPT !.committed = TRUE]
                     /\ ppc' = "close"
                     /\ NoRaise
            /\ UNCHANGED <<tx_order, tx_macd>>
       ELSE /\ dblog' = Append(dblog, "rollback")
            /\ \E f \in FailChoices("rollback") :
                IF f THEN /\ Raise("rollback")
                          /\ UNCHANGED <<tx_order, tx_macd, result>>
                ELSE /\ tx_order' = order_request
                     /\ tx_macd' = macd_request
                     /\ result' = [result EXCEPT !.committed = FALSE]
                     /\ ppc' = "close"
                     /\ NoRaise
            /\ UNCHANGED <<order_request, macd_request>>
    /\ UNCHANGED <<order0, macd0, argVars, conn, cur, rows, eligible_records,
                   basket_ids, macd_ids, exc>>
    /\ UNCHANGED <<hVars, kVars, lifeVars, run, first>>

\* cur.close() (no eligible record: line 366; after commit or rollback: line 416)
CloseCursor ==
    /\ ppc \in {"close_early", "close"}
    /\ dblog' = Append(dblog, "cur.close")
    /\ \E f \in FailChoices("cur_close") :
        IF f THEN Raise("cur_close") /\ UNCHANGED cur
        ELSE cur' = "closed" /\ ppc' = "return" /\ NoRaise
    /\ UNCHANGED <<order_request, macd_request, tx_order, tx_macd, order0, macd0,
                   argVars, conn, rows, eligible_records, basket_ids, macd_ids,
                   result, exc>>
    /\ UNCHANGED <<hVars, kVars, lifeVars, run, first>>

ReleaseConn_Leak(c) == c
\* finally: if conn: conn.close()
ReleaseConn(c) == IF c = "open" THEN "closed" ELSE c

\* A closed connection discards what its transaction did not commit.
Finally ==
    /\ conn' = ReleaseConn(conn)
    /\ dblog' = IF conn = "open" THEN Append(dblog, "conn.close") ELSE dblog
    /\ tx_order' = order_request
    /\ tx_macd' = macd_request

\* return result, through the finally clause
Return ==
    /\ ppc = "return"
    /\ Finally
    /\ ppc' = "returned"
    /\ UNCHANGED <<order_request, macd_request, order0, macd0, argVars, cur, rows,
                   eligible_records, basket_ids, macd_ids, result, exc>>
    /\ NoRaise
    /\ UNCHANGED <<hVars, kVars, lifeVars, run, first>>

\* except Exception: if conn: conn.rollback(); raise
\* A rollback that raises replaces the exception being handled.
Except ==
    /\ ppc = "except"
    /\ IF conn = "open"
       THEN /\ dblog' = Append(dblog, "rollback")
            /\ \E f \in FailChoices("except_rollback") :
                /\ env' = IF run = 1 THEN [env EXCEPT !.rollback_fault = f] ELSE env
                /\ IF f THEN exc' = "except_rollback" /\ UNCHANGED <<tx_order, tx_macd>>
                   ELSE /\ exc' = caught
                        /\ tx_order' = order_request
                        /\ tx_macd' = macd_request
       ELSE /\ exc' = caught
            /\ UNCHANGED <<dblog, tx_order, tx_macd, env>>
    /\ ppc' = "finally"
    /\ UNCHANGED <<order_request, macd_request, order0, macd0, argVars, conn, cur,
                   rows, eligible_records, basket_ids, macd_ids, result, caught>>
    /\ UNCHANGED <<hVars, kVars, lifeVars, run, first>>

\* the finally clause on the raising path; the exception then leaves
Raised ==
    /\ ppc = "finally"
    /\ Finally
    /\ ppc' = "raised"
    /\ UNCHANGED <<order_request, macd_request, order0, macd0, argVars, cur, rows,
                   eligible_records, basket_ids, macd_ids, result, exc>>
    /\ NoRaise
    /\ UNCHANGED <<hVars, kVars, lifeVars, run, first>>

NextProc ==
    \/ Connect
    \/ Cursor
    \/ BuildQuery
    \/ Select
    \/ Partition
    \/ Collect
    \/ UpdateOrder
    \/ UpdateMacd
    \/ CommitOrRollback
    \/ CloseCursor
    \/ Return
    \/ Except
    \/ Raised

\* One run of process_macd_cancellation on any database content and arguments.
InitProc ==
    /\ \E t \in MacdTables(MaxMacd) : ProcInit(t)
    /\ KayakoIdle
    /\ ppc = "connect"
    /\ org_id \in ProcOrgIds
    /\ subscriptions \in SubscriptionInputs
    /\ test_mode \in BOOLEAN
    /\ hpc = "none"
    /\ region = PyNone
    /\ case_id = PyNone
    /\ run = 0

SpecProc == InitProc /\ [][NextProc]_vars

\* A production run has committed and returned: process_macd_cancellation is
\* called again with the same arguments on the database as the run left it.
Rerun ==
    /\ ppc = "returned"
    /\ invocation = 1
    /\ ~test_mode
    /\ result.committed
    /\ invocation' = 2
    /\ first' = <<[order_request |-> order_request, macd_request |-> macd_request,
                   macd0 |-> macd0]>>
    /\ order0' = order_request
    /\ macd0' = macd_request
    /\ tx_order' = order_request
    /\ tx_macd' = macd_request
    /\ dblog' = <<>>
    /\ ppc' = "connect"
    /\ conn' = "None"
    /\ cur' = "None"
    /\ rows' = <<>>
    /\ eligible_records' = <<>>
    /\ basket_ids' = <<>>
    /\ macd_ids' = <<>>
    /\ result' = EmptyResult
    /\ caught' = "none"
    /\ exc' = "none"
    /\ UNCHANGED <<order_request, macd_request, argVars, hVars, kVars, loads,
                   run, env>>

NextTwice == NextProc \/ Rerun

\* A run of process_macd_cancellation and, when it committed, a second one.
SpecTwice == InitProc /\ [][NextTwice]_vars

\* One run on a table of one more row, all of whose rows the query fetches.
InitCollect ==
    /\ \E t \in MacdTables(MaxMacd + 1) : ProcInit(t)
    /\ KayakoIdle
    /\ ppc = "connect"
    /\ org_id = PyStr(<<"0", "D">>)
    /\ subscriptions = << <<"b">>, <<"a">> >>
    /\ test_mode \in BOOLEAN
    /\ hpc = "none"
    /\ region = PyNone
    /\ case_id = PyNone
    /\ run = 0

SpecCollect == InitCollect /\ [][NextProc]_vars

\* ------------------------------------------------------------ input helpers
\* parse_list_parameter(value)
ParseListParameter(v) ==
    CASE v.kind = "none" -> <<>>
      [] v.kind = "list" -> v.val
      [] OTHER -> <<v.val>>

\* parse_bool_parameter(value)
ParseBoolParameter(v) ==
    CASE v.kind = "none" -> FALSE
      [] v.kind = "bool" -> v.val[1]
      [] v.kind = "str" ->
            Lower(v.val) \in {<<"t", "r", "u", "e">>, <<"1">>, <<"y", "e", "s">>}
      [] v.kind = "int" -> TRUE
      [] OTHER -> FALSE

ValidateInputs_FirstOnly(o, subs, r, c) ==
    IF ~PyTruthy(o) THEN <<"Missing required field: org_id">>
    ELSE IF subs = <<>>
    THEN <<"Missing required field: subscriptions (must be a non-empty list)">>
    ELSE IF ~PyTruthy(r) THEN <<"Missing required field: region">>
    ELSE IF ~PyTruthy(c) THEN <<"Missing required field: case_id">>
    ELSE <<>>
\* validate_inputs(org_id, subscriptions, region, case_id); subscriptions is
\* the list parse_list_parameter returned.
ValidateInputs(o, subs, r, c) ==
    (IF ~PyTruthy(o) THEN <<"Missing required field: org_id">> ELSE <<>>)
    \o (IF subs = <<>>
        THEN <<"Missing required field: subscriptions (must be a non-empty list)">>
        ELSE <<>>)
    \o (IF ~PyTruthy(r) THEN <<"Missing required field: region">> ELSE <<>>)
    \o (IF ~PyTruthy(c) THEN <<"Missing required field: case_id">> ELSE <<>>)

DefaultPort == 5432

\* get_database_config(region), reading os.environ['databases'].
GetDatabaseConfig(r, blob) ==
    IF r.kind # "str"
    THEN [kind |-> "AttributeError", msg |-> "none", what |-> <<>>, port |-> 0]
    ELSE
    LET R == Upper(r.val)
        InEmpty(k) == k \in blob.empty
        missing_params == SelectSeq(<<"dbname", "user", "password", "host">>, InEmpty)
    IN  IF ~blob.present
        THEN [kind |-> "ValueError",
              msg |-> "No databases configuration found in SSM parameters",
              what |-> <<>>, port |-> 0]
        ELSE IF R \notin Range(blob.regions)
        THEN [kind |-> "ValueError", msg |-> "Unsupported database region",
              what |-> <<R>> \o blob.regions, port |-> 0]
        ELSE IF missing_params # <<>>
        THEN [kind |-> "ValueError",
              msg |-> "Missing database configuration parameters",
              what |-> missing_params, port |-> 0]
        ELSE [kind |-> "ok", msg |-> "none", what |-> <<>>,
              port |-> IF blob.port = NULL THEN DefaultPort ELSE blob.port]

\* format_results(result, org_id, subscriptions, test_mode): the parts of the report
FormatResults(res, o, subs, tm) ==
    [banner |-> IF tm THEN "TEST MODE - Changes were NOT committed (rolled back)"
                ELSE "PRODUCTION MODE - Changes were committed",
     org_id |-> o,
     subscriptions_queried |-> Len(subs),
     total_found |-> res.total_found,
     eligible_count |-> res.eligible_count,
     skipped_wrong_status |-> res.skipped_wrong_status,
     order_requests_updated |-> res.order_requests_updated,
     macd_requests_updated |-> res.macd_requests_updated,
     skipped_records |-> [i \in DOMAIN res.skipped_records |->
                            [id |-> res.skipped_records[i].id,
                             status |-> res.skipped_records[i].status]],
     basket_ids |-> res.updated_basket_ids,
     macd_ids |-> res.updated_macd_ids,
     closing |-> IF tm THEN "NOTE: This was a TEST run. No actual changes were made to the database."
                 ELSE "All changes have been committed to the database."]

SuccessBody_Swapped(res, c, tm) ==
    [macd_requests_found |-> res.eligible_count,
     eligible_for_update |-> res.total_found,
     skipped_wrong_status |-> res.skipped_wrong_status,
     order_requests_updated |-> res.order_requests_updated,
     macd_requests_updated |-> res.macd_requests_updated,
     case_id |-> c, test_mode |-> tm, committed |-> res.committed]
\* the body of the 200 response
SuccessBody(res, c, tm) ==
    [macd_requests_found |-> res.total_found,
     eligible_for_update |-> res.eligible_count,
     skipped_wrong_status |-> res.skipped_wrong_status,
     order_requests_updated |-> res.order_requests_updated,
     macd_requests_updated |-> res.macd_requests_updated,
     case_id |-> c, test_mode |-> tm, committed |-> res.committed]

Reply(code, kind, what, extra) ==
    [statusCode |-> code, message |-> [kind |-> kind, what |-> what], extra |-> extra]

\* -------------------------------------------------------------- input sets
EU == <<"E", "U">>
DatabasesBlobs ==
    { NoDatabases,
      [present |-> TRUE, regions |-> <<EU>>, empty |-> {}, port |-> NULL],
      [present |-> TRUE, regions |-> <<EU>>, empty |-> {"password", "host"},
       port |-> 6543] }

\* What load_parameters may return: a dict with that many keys, 'databases'
\* among them when present.
ParameterValues ==
    {[loaded |-> TRUE, keys |-> 0, databases |-> NoDatabases]}
    \cup {[loaded |-> TRUE, keys |-> 2, databases |-> d] : d \in DatabasesBlobs}

BodyKinds == {"dict", "json_object", "json_scalar", "bad_json"}

\* body 'test' and query-string 'test_mode'
TestFlags ==
    { <<PyNone, PyNone>>, <<PyBool(TRUE), PyNone>>,
      <<PyStr(<<"f", "a", "l", "s", "e">>), PyStr(<<"t", "r", "u", "e">>)>>,
      <<PyNone, PyStr(<<"T", "r", "u", "e">>)>> }

Requests ==
    { [org_id |-> o, subscriptions |-> sb, region |-> r, case_id |-> c,
       test |-> t[1], query_test_mode |-> t[2]] :
        o \in {PyNone, PyStr(<<>>)} \cup OrgIds,
        sb \in {PyNone, PyList(<<>>)} \cup {PyList(l) : l \in SubscriptionInputs},
        r \in {PyNone, PyStr(<<"e", "u">>), PyStr(<<"X", "X">>), PyInt},
        c \in {PyNone, PyStr(<<>>), PyStr(<<"9">>)},
        t \in TestFlags }

HandlerMacd == 1    \* rows of macd_request when lambda_handler is run

HandlerRows(i) ==
    [id : {NULL, i}, basket_id : {NULL, 1}, status : {"posted", "declined"},
     subscription_id : {((i - 1) % 2) + 1}]

HandlerTables ==
    {t \in [1..HandlerMacd -> UNION {HandlerRows(i) : i \in 1..HandlerMacd}] :
        \A i \in 1..HandlerMacd : t[i] \in HandlerRows(i)}

MaxAttempts == 3

\* ---------------------------------------------------------- KayakoConnect
\* What one HTTP attempt may get: a response with a status code, or an
\* exception of requests (ConnectionError, another RequestException) or of
\* anything else.
HttpResults ==
    {"200", "201", "202", "401", "404", "429", "500",
     "ConnectionError", "RequestException", "Exception"}

Methods == {"get", "post", "put"}

\* The status codes on which the method returns response.json().
SuccessCodes(m) ==
    CASE m = "get" -> {"200"}
      [] m = "post" -> {"201"}
      [] m = "put" -> {"200", "202"}

ShouldRetry_ServerErrors(r) == r \in {"429", "500"}
\* elif response.status_code == 429: time.sleep(15), and the loop goes on
ShouldRetry(r) == r = "429"

\* What one turn of the while loop does with what its attempt got.
Turn(m, r) ==
    IF r \in SuccessCodes(m) THEN "return_json"
    ELSE IF ShouldRetry(r) THEN "sleep"
    ELSE IF r \in {"ConnectionError", "RequestException"} THEN "break"
    ELSE IF r = "Exception" THEN "raise"
    ELSE "return_none"

\* One turn of the while loop of get / post / put.
KayakoAttempt ==
    /\ kpc = "loop"
    /\ attempts < MaxAttempts
    /\ \E r \in HttpResults :
        /\ received' = Append(received, r)
        /\ attempts' = IF Turn(method, r) = "sleep" THEN attempts + 1 ELSE attempts
        /\ kpc' = CASE Turn(method, r) = "sleep" -> "loop"
                    [] Turn(method, r) = "raise" -> "raised"
                    [] OTHER -> "returned"
        /\ kret' = CASE Turn(method, r) = "return_json" -> "response.json()"
                     [] Turn(method, r) \in {"return_none", "break"} -> "None"
                     [] OTHER -> kret
    /\ UNCHANGED <<dbVars, argVars, procVars, hpc, PARAMETERS, environ, body_is_dict,
                   region, case_id, kayako_agent, notes, note_for, tklog, response,
                   hexc, method, is_shim, lifeVars, pairVars>>

\* while attempts < 3 is false: the function ends without a return statement.
KayakoGiveUp ==
    /\ kpc = "loop"
    /\ attempts >= MaxAttempts
    /\ kpc' = "returned"
    /\ kret' = "None"
    /\ UNCHANGED <<dbVars, argVars, procVars, hVars, method, is_shim, received,
                   lifeVars, pairVars>>

NextKayako == KayakoAttempt \/ KayakoGiveUp

\* One call of get, post or put.
InitKayako ==
    /\ ProcInit(<<>>)
    /\ ppc = "idle"
    /\ hpc = "none"
    /\ org_id = PyNone
    /\ subscriptions = <<>>
    /\ region = PyNone
    /\ case_id = PyNone
    /\ test_mode = FALSE
    /\ run = 0
    /\ kpc = "loop"
    /\ method \in Methods
    /\ is_shim \in BOOLEAN
    /\ received = <<>>
    /\ kret = "none"

\* time.sleep(15) and every HTTP attempt end, so the loop keeps turning.
SpecKayako == InitKayako /\ [][NextKayako]_vars /\ WF_vars(NextKayako)

\* --------------------------------------------------------- lambda_handler
After_TicketingFirst(step) ==
    CASE step = "validate" -> "hc_init"
      [] step = "hc_init" -> "config"
      [] step = "config" -> "process"
\* The order of the handler's steps after the body is parsed.
After(step) ==
    CASE step = "validate" -> "config"
      [] step = "config" -> "hc_init"
      [] step = "hc_init" -> "process"

ParametersTruthy_OnceLoaded(P) == P.loaded
\* bool(PARAMETERS): None and the empty dict are falsy
ParametersTruthy(P) == P.loaded /\ P.keys > 0

\* PARAMETERS = PARAMETERS or load_parameters(PARAMETER_NAME); os.environ update
LoadParameters ==
    /\ hpc = "start"
    /\ IF ParametersTruthy(PARAMETERS)
       THEN /\ hpc' = "parse"
            /\ UNCHANGED <<PARAMETERS, environ, hexc, env, loads>>
       ELSE \E o \in Pick("load", {"ok", "raise"}) :
            IF o = "raise"
            THEN /\ hexc' = "ClientError"
                 /\ hpc' = "outer_except"
                 /\ env' = IF run = 1 THEN [env EXCEPT !.load = o] ELSE env
                 /\ UNCHANGED <<PARAMETERS, environ, loads>>
            ELSE \E d \in Pick("databases", ParameterValues) :
                 /\ PARAMETERS' = d
                 /\ loads' = loads + 1
                 /\ environ' = IF d.databases.present THEN d.databases ELSE environ
                 /\ hpc' = "parse"
                 /\ env' = IF run = 1
                           THEN [env EXCEPT !.load = o, !.databases = d] ELSE env
                 /\ UNCHANGED hexc
    /\ UNCHANGED <<dbVars, argVars, procVars, body_is_dict, region, case_id,
                   kayako_agent, notes, note_for, tklog, attempts, response,
                   run, first>>
    /\ UNCHANGED <<kVars, invocation>>

\* body = event.get("body"); json.loads when it is no dict
ParseBody ==
    /\ hpc = "parse"
    /\ \E b \in Pick("body", BodyKinds) :
        /\ env' = IF run = 1 THEN [env EXCEPT !.body = b] ELSE env
        /\ IF b = "bad_json"
           THEN /\ response' = Reply(400, "Invalid JSON", <<>>, <<>>)
                /\ hpc' = "done"
                /\ UNCHANGED body_is_dict
           ELSE /\ body_is_dict' = (b # "json_scalar")
                /\ hpc' = "extract"
                /\ UNCHANGED response
    /\ UNCHANGED <<dbVars, argVars, procVars, PARAMETERS, environ, region, case_id,
                   kayako_agent, notes, note_for, tklog, attempts, hexc, run, first>>
    /\ UNCHANGED <<kVars, lifeVars>>

\* query_params, org_id, subscriptions, region, case_id, test_mode
Extract ==
    /\ hpc = "extract"
    /\ IF ~body_is_dict
       THEN /\ hexc' = "AttributeError"
            /\ hpc' = "outer_except"
            /\ UNCHANGED <<argVars, region, case_id, env>>
       ELSE \E f \in Pick("fields", Requests) :
            /\ org_id' = f.org_id
            /\ subscriptions' = ParseListParameter(f.subscriptions)
            /\ region' = f.region
            /\ case_id' = f.case_id
            /\ test_mode' = ParseBoolParameter(
                    PyOr(PyOr(f.test, f.query_test_mode), PyBool(FALSE)))
            /\ hpc' = "validate"
            /\ env' = IF run = 1 THEN [env EXCEPT !.fields = f] ELSE env
            /\ UNCHANGED hexc
    /\ UNCHANGED <<dbVars, procVars, PARAMETERS, environ, body_is_dict,
                   kayako_agent, notes, note_for, tklog, attempts, response,
                   run, first>>
    /\ UNCHANGED <<kVars, lifeVars>>

\* validation_errors = validate_inputs(...); 400 when there are any
Validate ==
    /\ hpc = "validate"
    /\ LET validation_errors == ValidateInputs(org_id, subscriptions, region, case_id)
       IN IF validation_errors # <<>>
          THEN /\ response' = Reply(400, "Validation errors", validation_errors, <<>>)
               /\ hpc' = "done"
          ELSE /\ hpc' = After("validate")
               /\ UNCHANGED response
    /\ UNCHANGED <<dbVars, argVars, procVars, PARAMETERS, environ, body_is_dict,
                   region, case_id, kayako_agent, notes, note_for, tklog, attempts,
                   hexc, pairVars>>
    /\ UNCHANGED <<kVars, lifeVars>>

\* db_config = get_database_config(region); 500 on ValueError
ResolveConfig ==
    /\ hpc = "config"
    /\ LET c == GetDatabaseConfig(region, environ)
       IN CASE c.kind = "AttributeError" ->
                /\ hexc' = "AttributeError"
                /\ hpc' = "outer_except"
                /\ UNCHANGED response
            [] c.kind = "ValueError" ->
                /\ response' = Reply(500, c.msg, c.what, <<>>)
                /\ hpc' = "done"
                /\ UNCHANGED hexc
            [] OTHER ->
                /\ hpc' = After("config")
                /\ UNCHANGED <<response, hexc>>
    /\ UNCHANGED <<dbVars, argVars, procVars, PARAMETERS, environ, body_is_dict,
                   region, case_id, kayako_agent, notes, note_for, tklog, attempts,
                   pairVars>>
    /\ UNCHANGED <<kVars, lifeVars>>

\* hc_agent = HelpCenterConnect(is_kayako=True): KayakoConnect() and its
\* test_connection(); an exception of either leaves kayako_agent None.
InitHelpCenter ==
    /\ hpc = "hc_init"
    /\ \E o \in {"ok", "probe_failed", "no_credentials", "init_raised"} :
        /\ kayako_agent' = IF o = "init_raised" THEN "None" ELSE "agent"
        /\ tklog' = IF o \in {"ok", "probe_failed"}
                    THEN Append(tklog, "GET departments.json") ELSE tklog
    /\ hpc' = After("hc_init")
    /\ UNCHANGED <<dbVars, argVars, procVars, PARAMETERS, environ, body_is_dict,
                   region, case_id, notes, note_for, attempts, response, hexc,
                   pairVars>>
    /\ UNCHANGED <<kVars, lifeVars>>

\* result = process_macd_cancellation(db_config, org_id, subscriptions, test_mode)
CallProcess ==
    /\ hpc = "process"
    /\ ppc = "idle"
    /\ ppc' = "connect"
    /\ hpc' = "in_process"
    /\ UNCHANGED <<dbVars, argVars, conn, cur, rows, eligible_records, basket_ids,
                   macd_ids, result, caught, exc, PARAMETERS, environ, body_is_dict,
                   region, case_id, kayako_agent, notes, note_for, tklog, attempts,
                   response, hexc, pairVars>>
    /\ UNCHANGED <<kVars, lifeVars>>

\* result_text = format_results(...); hc_agent.write_internal_note(case_id, result_text)
PostReport ==
    /\ hpc = "in_process"
    /\ ppc = "returned"
    /\ notes' = Append(notes,
            [ticket |-> case_id,
             text |-> [kind |-> "report",
                       what |-> <<FormatResults(result, org_id, subscriptions,
                                                test_mode)>>]])
    /\ note_for' = "success"
    /\ hpc' = "note"
    /\ UNCHANGED <<dbVars, argVars, procVars, PARAMETERS, environ, body_is_dict,
                   region, case_id, kayako_agent, tklog, attempts, response, hexc,
                   pairVars>>
    /\ UNCHANGED <<kVars, lifeVars>>

\* except Exception as e: hc_agent.write_internal_note(case_id, "... Failed: ...")
InnerExcept ==
    /\ \/ hpc = "in_process" /\ ppc = "raised"
       \/ hpc = "inner_except"
    /\ notes' = Append(notes,
            [ticket |-> case_id,
             text |-> [kind |-> "failure",
                       what |-> <<IF hpc = "inner_except" THEN hexc ELSE exc>>]])
    /\ note_for' = "failure"
    /\ hpc' = "note"
    /\ UNCHANGED <<dbVars, argVars, procVars, PARAMETERS, environ, body_is_dict,
                   region, case_id, kayako_agent, tklog, attempts, response, hexc,
                   pairVars>>
    /\ UNCHANGED <<kVars, lifeVars>>

Fallback_Propagates(raised_inside) == [returns |-> "None", raises |-> raised_inside]
\* HelpCenterConnect._execute_with_fallback: whatever the agent's method does,
\* the call returns None.
Fallback(raised_inside) == [returns |-> "None", raises |-> FALSE]

\* An exception that leaves write_internal_note reaches the handler's try.
NoteRaises ==
    IF note_for = "success"
    THEN hexc' = "TicketingError" /\ hpc' = "inner_except"
    ELSE hexc' = "TicketingError" /\ hpc' = "outer_except"

\* HelpCenterConnect.write_internal_note -> _execute_with_fallback
WriteInternalNote ==
    /\ hpc = "note"
    /\ IF kayako_agent = "agent"
       THEN hpc' = "put" /\ attempts' = 0
       ELSE hpc' = "after_note" /\ UNCHANGED attempts
    /\ UNCHANGED <<dbVars, argVars, procVars, PARAMETERS, environ, body_is_dict,
                   region, case_id, kayako_agent, notes, note_for, tklog, response,
                   hexc, pairVars>>
    /\ UNCHANGED <<kVars, lifeVars>>

\* KayakoConnect.write_internal_note -> put("tickets/update_many"): one turn of
\* the while loop.
KayakoPut ==
    /\ hpc = "put"
    /\ attempts < MaxAttempts
    /\ tklog' = Append(tklog, "PUT tickets/update_many")
    /\ \E r \in HttpResults :
        CASE Turn("put", r) = "sleep" ->
                /\ attempts' = attempts + 1
                /\ hpc' = IF attempts + 1 < MaxAttempts THEN "put" ELSE "after_note"
                /\ UNCHANGED hexc
          [] Turn("put", r) = "raise" ->
                /\ IF Fallback(TRUE).raises THEN NoteRaises
                   ELSE hpc' = "after_note" /\ UNCHANGED hexc
                /\ UNCHANGED attempts
          [] OTHER ->
                /\ hpc' = "after_note"
                /\ UNCHANGED <<attempts, hexc>>
    /\ UNCHANGED <<dbVars, argVars, procVars, PARAMETERS, environ, body_is_dict,
                   region, case_id, kayako_agent, notes, note_for, response,
                   pairVars>>
    /\ UNCHANGED <<kVars, lifeVars>>

\* return {'statusCode': 200, ...}
Respond200 ==
    /\ hpc = "after_note"
    /\ note_for = "success"
    /\ response' = Reply(200, "MACD request cancellation completed", <<>>,
                         <<SuccessBody(result, case_id, test_mode)>>)
    /\ hpc' = "done"
    /\ UNCHANGED <<dbVars, argVars, procVars, PARAMETERS, environ, body_is_dict,
                   region, case_id, kayako_agent, notes, note_for, tklog, attempts,
                   hexc, pairVars>>
    /\ UNCHANGED <<kVars, lifeVars>>

\* return {'statusCode': 500, "message": "Operation failed: ..."}
Respond500 ==
    /\ hpc = "after_note"
    /\ note_for = "failure"
    /\ response' = Reply(500, "Operation failed",
                         <<IF ppc = "raised" THEN exc ELSE hexc>>, <<>>)
    /\ hpc' = "done"
    /\ UNCHANGED <<dbVars, argVars, procVars, PARAMETERS, environ, body_is_dict,
                   region, case_id, kayako_agent, notes, note_for, tklog, attempts,
                   hexc, pairVars>>
    /\ UNCHANGED <<kVars, lifeVars>>

OuterCatches_ValueErrorOnly(e) == e = "ValueError"
\* except Exception
OuterCatches(e) == TRUE

\* the outermost except: 500 "Lambda execution error: ..."
OuterExcept ==
    /\ hpc = "outer_except"
    /\ IF OuterCatches(hexc)
       THEN /\ response' = Reply(500, "Lambda execution error", <<hexc>>, <<>>)
            /\ hpc' = "done"
       ELSE /\ hpc' = "escaped"
            /\ UNCHANGED response
    /\ UNCHANGED <<dbVars, argVars, procVars, PARAMETERS, environ, body_is_dict,
                   region, case_id, kayako_agent, notes, note_for, tklog, attempts,
                   hexc, pairVars>>
    /\ UNCHANGED <<kVars, lifeVars>>

NextHandler ==
    \/ LoadParameters
    \/ ParseBody
    \/ Extract
    \/ Validate
    \/ ResolveConfig
    \/ InitHelpCenter
    \/ CallProcess
    \/ PostReport
    \/ InnerExcept
    \/ WriteInternalNote
    \/ KayakoPut
    \/ Respond200
    \/ Respond500
    \/ OuterExcept

Next == NextHandler \/ NextProc

InitHandler ==
    /\ \E t \in HandlerTables : ProcInit(t)
    /\ KayakoIdle
    /\ ppc = "idle"
    /\ hpc = "start"
    /\ org_id = PyNone
    /\ subscriptions = <<>>
    /\ region = PyNone
    /\ case_id = PyNone
    /\ test_mode = FALSE

\* One invocation of lambda_handler.
Init == InitHandler /\ run = 0

Spec == Init /\ [][Next]_vars

\* ------------------------------------------------- two invocations compared
\* The first invocation is over: keep its outcome, put the database back as
\* it was and run the handler again in a fresh process.  Everything but the
\* ticketing service then behaves as it did the first time.
Restart ==
    /\ hpc = "done"
    /\ run = 1
    /\ first' = <<[response |-> response, order_request |-> order_request,
                   macd_request |-> macd_request, kayako_agent |-> kayako_agent]>>
    /\ run' = 2
    /\ order_request' = order0
    /\ macd_request' = macd0
    /\ tx_order' = order0
    /\ tx_macd' = macd0
    /\ dblog' = <<>>
    /\ ppc' = "idle"
    /\ conn' = "None"
    /\ cur' = "None"
    /\ rows' = <<>>
    /\ eligible_records' = <<>>
    /\ basket_ids' = <<>>
    /\ macd_ids' = <<>>
    /\ result' = EmptyResult
    /\ caught' = "none"
    /\ exc' = "none"
    /\ hpc' = "start"
    /\ PARAMETERS' = NoParameters
    /\ environ' = NoDatabases
    /\ body_is_dict' = TRUE
    /\ org_id' = PyNone
    /\ subscriptions' = <<>>
    /\ region' = PyNone
    /\ case_id' = PyNone
    /\ test_mode' = FALSE
    /\ kayako_agent' = "None"
    /\ notes' = <<>>
    /\ note_for' = "none"
    /\ tklog' = <<>>
    /\ attempts' = 0
    /\ response' = NoResponse
    /\ hexc' = "none"
    /\ UNCHANGED <<order0, macd0, env>>
    /\ UNCHANGED <<kVars, lifeVars>>

NextPair == NextHandler \/ NextProc \/ Restart

InitPair == InitHandler /\ run = 1

\* Two invocations of lambda_handler on the same request, configuration,
\* database content and database behaviour.
SpecPair == InitPair /\ [][NextPair]_vars

\* ------------------------------------------- invocations of one process
\* The process serves its next invocation: the module-level PARAMETERS,
\* os.environ and the database stay, everything else starts afresh.
NextInvocation ==
    /\ hpc = "done"
    /\ run = 0
    /\ invocation < MaxInvocations
    /\ invocation' = invocation + 1
    /\ order0' = order_request
    /\ macd0' = macd_request
    /\ tx_order' = order_request
    /\ tx_macd' = macd_request
    /\ dblog' = <<>>
    /\ ppc' = "idle"
    /\ conn' = "None"
    /\ cur' = "None"
    /\ rows' = <<>>
    /\ eligible_records' = <<>>
    /\ basket_ids' = <<>>
    /\ macd_ids' = <<>>
    /\ result' = EmptyResult
    /\ caught' = "none"
    /\ exc' = "none"
    /\ hpc' = "start"
    /\ body_is_dict' = TRUE
    /\ org_id' = PyNone
    /\ subscriptions' = <<>>
    /\ region' = PyNone
    /\ case_id' = PyNone
    /\ test_mode' = FALSE
    /\ kayako_agent' = "None"
    /\ notes' = <<>>
    /\ note_for' = "none"
    /\ tklog' = <<>>
    /\ attempts' = 0
    /\ response' = NoResponse
    /\ hexc' = "none"
    /\ UNCHANGED <<order_request, macd_request, PARAMETERS, environ, kVars, loads,
                   pairVars>>

NextProcess == NextHandler \/ NextProc \/ NextInvocation

\* The invocations one process serves, one after the other.
SpecProcess == Init /\ [][NextProcess]_vars

\* ------------------------------------------------------------------ claims
\* What the run is expected to do, read off the tables as they were before it.
Fetched0(j) ==
    \E k \in DOMAIN subscriptions :
        \E s \in DOMAIN SubscriptionTable :
            /\ SubscriptionTable[s].id = macd0[j].subscription_id
            /\ Like(SubscriptionTable[s].sfdc_id, subscriptions[k])
EligibleRow0(j) == Fetched0(j) /\ macd0[j].status = "posted"
EligibleBaskets0 ==
    {macd0[j].basket_id : j \in {k \in DOMAIN macd0 : EligibleRow0(k)}} \ {NULL}
EligibleIds0 ==
    {macd0[j].id : j \in {k \in DOMAIN macd0 : EligibleRow0(k)}} \ {NULL}
ExpectedOrder ==
    [i \in DOMAIN order0 |->
        IF order0[i].basket_id \in EligibleBaskets0
        THEN [order0[i] EXCEPT !.status = "Error"] ELSE order0[i]]
ExpectedMacd ==
    [j \in DOMAIN macd0 |->
        IF macd0[j].id \in EligibleIds0
        THEN [macd0[j] EXCEPT !.status = "posted1"] ELSE macd0[j]]
Positions(log, what) == {i \in DOMAIN log : log[i] = what}
ConnOpened == conn # "None"

\* C1: a run in test mode leaves every order_request and macd_request row as
\* it was, returns committed = false, and still reports the row counts of the
\* two UPDATE statements it executed inside the rolled-back transaction.
C1_TestModePersistsNothing ==
    test_mode =>
        /\ order_request = order0
        /\ macd_request = macd0
        /\ ppc = "returned" =>
            /\ result.committed = FALSE
            /\ result.order_requests_updated =
                 Cardinality({i \in DOMAIN order0 :
                                 order0[i].basket_id \in EligibleBaskets0})
            /\ result.macd_requests_updated =
                 Cardinality({j \in DOMAIN macd0 : macd0[j].id \in EligibleIds0})

C1_Witness ==
    /\ test_mode
    /\ ppc = "returned"
    /\ Positions(dblog, "rollback") # {}
    /\ result.order_requests_updated > 0
    /\ result.macd_requests_updated > 0

\* C2 as stated: after a production run that found an eligible row and in
\* which no step failed, the order_request rows set to Error are those whose
\* basket_id is the basket_id of an eligible fetched row, the macd_request rows
\* set to posted1 are the eligible fetched rows, and no other row changed.
C2_Original ==
    (ppc = "returned" /\ ~test_mode /\ \E j \in DOMAIN macd0 : EligibleRow0(j)) =>
        /\ order_request = ExpectedOrder
        /\ macd_request =
             [j \in DOMAIN macd0 |->
                 IF EligibleRow0(j)
                 THEN [macd0[j] EXCEPT !.status = "posted1"] ELSE macd0[j]]

\* C2 amended: the macd_request rows set to posted1 are the rows whose id is
\* the non-null id of an eligible fetched row (an eligible row whose id is null
\* keeps its status); the order_request rows set to Error are those whose
\* basket_id is the non-null basket_id of an eligible fetched row; no other
\* row changed.
C2_Amended ==
    (ppc = "returned" /\ ~test_mode /\ \E j \in DOMAIN macd0 : EligibleRow0(j)) =>
        /\ order_request = ExpectedOrder
        /\ macd_request = ExpectedMacd

C2_Witness ==
    /\ ppc = "returned"
    /\ ~test_mode
    /\ \E j \in DOMAIN macd0 : EligibleRow0(j) /\ macd0[j].id = NULL
    /\ \E j \in DOMAIN macd0 : macd_request[j].status = "posted1"
    /\ order_request # order0

\* C3: the order_request UPDATE is issued before the macd_request UPDATE in
\* the same transaction, and the persisted tables hold either the effects of
\* both updates, after the single commit, or the effects of neither.
C3_BothOrNeither ==
    /\ \A i \in Positions(dblog, "UPDATE order_request") :
        \A j \in Positions(dblog, "UPDATE macd_request") :
            /\ i < j
            /\ \A k \in i..j : dblog[k] \notin {"commit", "rollback", "conn.close"}
    /\ \/ order_request = order0 /\ macd_request = macd0
       \/ /\ order_request = ExpectedOrder
          /\ macd_request = ExpectedMacd
          /\ Cardinality(Positions(dblog, "commit")) = 1

C3_Witness ==
    /\ ppc = "raised"
    /\ caught = "update_macd"
    /\ Positions(dblog, "UPDATE order_request") # {}
    /\ ExpectedOrder # order0
    /\ order_request = order0

\* C4: on every exit path on which the connection was opened, the connection
\* is closed when control returns to the caller.
C4_ConnectionReleased ==
    (ppc \in {"returned", "raised"} /\ ConnOpened) =>
        /\ conn = "closed"
        /\ dblog[Len(dblog)] = "conn.close"

C4_Witness ==
    /\ ppc = "raised"
    /\ exc = "except_rollback"
    /\ conn = "closed"

\* C5 as stated: when a step raises, a rollback is issued on the open
\* connection, the connection is released, the same exception is re-raised,
\* and no result is returned.
C5_SameExceptionReraised ==
    /\ (ppc = "returned") => caught = "none"
    /\ (ppc = "raised") =>
        /\ caught # "none"
        /\ exc = caught
        /\ ConnOpened =>
            /\ conn = "closed"
            /\ \E i \in Positions(dblog, "rollback") : i = Len(dblog) - 1

\* C6: an invocation that ends at an early checkpoint (malformed JSON body:
\* 400; validation errors: 400; database configuration error: 500) has opened
\* no database connection, executed no statement and made no ticketing call.
Untouched ==
    /\ dblog = <<>>
    /\ conn = "None"
    /\ tklog = <<>>
    /\ notes = <<>>
    /\ kayako_agent = "None"

C6_EarlyExitsTouchNothing ==
    hpc = "done" =>
        /\ response.message.kind = "Invalid JSON" =>
            response.statusCode = 400 /\ Untouched
        /\ (hexc = "none" /\ response.message.kind # "Invalid JSON"
              /\ ValidateInputs(org_id, subscriptions, region, case_id) # <<>>) =>
            /\ response.statusCode = 400
            /\ response.message.kind = "Validation errors"
            /\ Untouched
        /\ (hexc = "none" /\ response.message.kind # "Invalid JSON"
              /\ ValidateInputs(org_id, subscriptions, region, case_id) = <<>>
              /\ GetDatabaseConfig(region, environ).kind = "ValueError") =>
            /\ response.statusCode = 500
            /\ response.message.kind = GetDatabaseConfig(region, environ).msg
            /\ response.message.what = GetDatabaseConfig(region, environ).what
            /\ Untouched

C6_Witness ==
    /\ hpc = "done"
    /\ response.statusCode = 500
    /\ response.message.kind = "Unsupported database region"
    /\ Untouched

\* C7 as stated: when process_macd_cancellation raises, nothing of the run is
\* persisted, write_internal_note was called once, on the request's case_id
\* with the failure text, and the response is 500.
C7_RaisedMeansRolledBack ==
    (hpc = "done" /\ ppc = "raised") =>
        /\ order_request = order0
        /\ macd_request = macd0
        /\ notes = <<[ticket |-> case_id,
                      text |-> [kind |-> "failure", what |-> <<exc>>]]>>
        /\ response.statusCode = 500

\* C8: when process_macd_cancellation returns a result, write_internal_note is
\* called on the request's case_id with the text of format_results, and the
\* response is 200 with the counters, test flag and committed of the result.
C8_SuccessResponseReportsResult ==
    (hpc = "done" /\ ppc = "returned") =>
        /\ notes = <<[ticket |-> case_id,
                      text |-> [kind |-> "report",
                                what |-> <<FormatResults(result, org_id,
                                                         subscriptions, test_mode)>>]]>>
        /\ response.statusCode = 200
        /\ Len(response.extra) = 1
        /\ LET b == response.extra[1]
           IN /\ b.macd_requests_found = result.total_found
              /\ b.eligible_for_update = result.eligible_count
              /\ b.skipped_wrong_status = result.skipped_wrong_status
              /\ b.order_requests_updated = result.order_requests_updated
              /\ b.macd_requests_updated = result.macd_requests_updated
              /\ b.test_mode = test_mode
              /\ b.committed = result.committed

C8_Witness ==
    /\ hpc = "done"
    /\ ppc = "returned"
    /\ result.total_found = 1
    /\ result.eligible_count = 0
    /\ response.statusCode = 200

\* C9: every invocation ends by returning a response whose statusCode is 200,
\* 400 or 500; no exception leaves lambda_handler, and an exception no inner
\* checkpoint handles gives 500 with the generic message.
C9_AlwaysAStructuredResponse ==
    /\ hpc # "escaped"
    /\ hpc = "done" \/ ENABLED Next
    /\ hpc = "done" =>
        /\ response.statusCode \in {200, 400, 500}
        /\ hexc # "none" =>
            /\ response.statusCode = 500
            /\ response.message.kind = "Lambda execution error"

C9_Witness ==
    /\ hpc = "done"
    /\ hexc = "AttributeError"
    /\ response.statusCode = 500

\* C10: two invocations that differ only in what the ticketing service does
\* return the same statusCode and counters and leave the same persisted
\* tables; a call through _execute_with_fallback returns None and never raises.
C10_TicketingNeverChangesOutcome ==
    /\ (run = 2 /\ hpc = "done") =>
        /\ response.statusCode = first[1].response.statusCode
        /\ response.extra = first[1].response.extra
        /\ order_request = first[1].order_request
        /\ macd_request = first[1].macd_request
    /\ hexc # "TicketingError"
    /\ \A b \in BOOLEAN : Fallback(b) = [returns |-> "None", raises |-> FALSE]

C10_Witness ==
    /\ run = 2
    /\ hpc = "done"
    /\ first[1].kayako_agent = "agent"
    /\ kayako_agent = "None"
    /\ tklog = <<>>
    /\ response.statusCode = 200
    /\ order_request # order0

\* C11: a call of get, post or put makes at most 3 HTTP attempts; an attempt
\* after the first is made only when the one before got 429; a success status
\* returns the decoded response at once, any other status but 429 and a
\* request error return None at once, three 429 in a row return None; the
\* call does not raise on any of these and always ends.
C11_Attempts ==
    /\ Len(received) <= 3
    /\ attempts <= 3
    /\ \A i \in 1..(Len(received) - 1) : received[i] = "429"
    /\ kpc = "loop" => \A i \in DOMAIN received : received[i] = "429"
    /\ kpc = "raised" => received[Len(received)] = "Exception"
    /\ kpc = "returned" =>
        LET last == received[Len(received)]
        IN  /\ received # <<>>
            /\ kret = IF last \in SuccessCodes(method)
                      THEN "response.json()" ELSE "None"
            /\ last = "429" => Len(received) = 3

C11_RetryBoundedAndTerminates ==
    [](C11_Attempts) /\ <>(kpc \in {"returned", "raised"})

C11_Witness ==
    /\ kpc = "returned"
    /\ method = "post"
    /\ received = <<"429", "429", "429">>
    /\ kret = "None"

\* C12 as stated: the effective test flag is the body's test when that is
\* bool-like true and the query string's test_mode otherwise, false when
\* neither is given; a request with test_mode=true in the query string and no
\* true test in the body runs in test mode and commits nothing.
AfterExtract ==
    \/ hpc \in {"validate", "config", "hc_init", "process", "in_process", "note",
                "put", "after_note"}
    \/ hpc = "done" /\ response.statusCode = 200

C12_QueryFlagUsedUnlessBodyTrue ==
    (run >= 1 /\ AfterExtract) =>
        LET body_test == ParseBoolParameter(env.fields.test)
            query_test == ParseBoolParameter(env.fields.query_test_mode)
        IN  /\ test_mode = (IF body_test THEN TRUE ELSE query_test)
            /\ (query_test /\ ~body_test) =>
                /\ order_request = order0
                /\ macd_request = macd0
                /\ result.committed = FALSE

\* C13: with N rows returned by the MACD query, K of them in status posted,
\* the result has total_found = N, eligible_count = K and
\* skipped_wrong_status = N - K, its skipped records are the N - K rows whose
\* status is not posted, and total_found = eligible_count +
\* skipped_wrong_status in every returned result.
Partitioned ==
    ppc \in {"close_early", "collect", "update_order", "update_macd", "commit",
             "close", "return", "returned"}

C13_CountsPartitionTheRows ==
    Partitioned =>
        LET N == Cardinality({j \in DOMAIN macd0 : Fetched0(j)})
            K == Cardinality({j \in DOMAIN macd0 : EligibleRow0(j)})
            Skipped0 == {j \in DOMAIN macd0 : Fetched0(j) /\ macd0[j].status # "posted"}
        IN  /\ result.total_found = N
            /\ result.eligible_count = K
            /\ result.skipped_wrong_status = N - K
            /\ Len(result.skipped_records) = N - K
            /\ Range(result.skipped_records) =
                 {[id |-> macd0[j].id, basket_id |-> macd0[j].basket_id,
                   status |-> macd0[j].status] : j \in Skipped0}
            /\ \A i \in DOMAIN result.skipped_records :
                 result.skipped_records[i].status # "posted"
            /\ result.total_found =
                 result.eligible_count + result.skipped_wrong_status

C13_Witness ==
    /\ ppc = "returned"
    /\ result.total_found = 2
    /\ result.eligible_count = 1
    /\ result.skipped_wrong_status = 1

\* C14 as stated: when the MACD query returns no row in status posted, the
\* run issues no UPDATE, no commit and no rollback, releases the connection
\* and returns a result with zero updates, empty id lists and committed =
\* false, in test and in production mode; the handler then responds 200, with
\* all counters zero when no row matched.
QueryReturned ==
    /\ ppc \notin {"idle", "connect", "cursor", "build", "select"}
    /\ caught \notin {"connect", "cursor", "build", "select"}

NoEligibleRow0 == ~\E j \in DOMAIN macd0 : EligibleRow0(j)

NothingDone ==
    /\ \A i \in DOMAIN dblog :
        dblog[i] \notin {"UPDATE order_request", "UPDATE macd_request",
                         "commit", "rollback"}
    /\ order_request = order0
    /\ macd_request = macd0
    /\ ppc # "raised"
    /\ ppc = "returned" =>
        /\ conn = "closed"
        /\ result.order_requests_updated = 0
        /\ result.macd_requests_updated = 0
        /\ result.updated_basket_ids = <<>>
        /\ result.updated_macd_ids = <<>>
        /\ result.committed = FALSE
    /\ hpc = "done" =>
        /\ response.statusCode = 200
        /\ (\A j \in DOMAIN macd0 : ~Fetched0(j)) =>
            /\ response.extra[1].macd_requests_found = 0
            /\ response.extra[1].eligible_for_update = 0
            /\ response.extra[1].skipped_wrong_status = 0
            /\ response.extra[1].order_requests_updated = 0
            /\ response.extra[1].macd_requests_updated = 0

C15_LoadedAtMostOnce == loads <= 1

\* C16 as stated: every statement of a run (the SELECT, the order_request
\* UPDATE, the macd_request UPDATE) addresses tables of the one schema
\* org_<org_id without surrounding double quotes, lower-cased>, for every
\* org_id validation accepts; no statement addresses another schema.
C16_OneTenantSchema ==
    (PyTruthy(org_id) /\ org_id.kind = "str") =>
        \A i \in DOMAIN dblog :
            \A expression \in StatementTables(dblog[i], org_id) :
                SchemasOf(expression) = {<<"org_">> \o Lower(Strip(org_id.val, "\""))}

\* C17: a payload in which some of org_id, subscriptions, region, case_id are
\* missing or empty is answered 400 with one error for each of the missing
\* fields, in the order org_id, subscriptions, region, case_id; and
\* validate_inputs returns no error exactly when all four are non-empty.
MissingOrEmpty(v) ==
    \/ v.kind = "none"
    \/ v.kind \in {"str", "list"} /\ v.val = <<>>

ExpectedErrors(f) ==
    (IF MissingOrEmpty(f.org_id)
     THEN <<"Missing required field: org_id">> ELSE <<>>)
    \o (IF MissingOrEmpty(f.subscriptions)
        THEN <<"Missing required field: subscriptions (must be a non-empty list)">>
        ELSE <<>>)
    \o (IF MissingOrEmpty(f.region)
        THEN <<"Missing required field: region">> ELSE <<>>)
    \o (IF MissingOrEmpty(f.case_id)
        THEN <<"Missing required field: case_id">> ELSE <<>>)

Validated ==
    /\ run >= 1
    /\ hpc = "done"
    /\ hexc = "none"
    /\ response.message.kind # "Invalid JSON"

C17_EveryMissingFieldReported ==
    Validated =>
        /\ ExpectedErrors(env.fields) # <<>> =>
            /\ response.statusCode = 400
            /\ response.message.kind = "Validation errors"
            /\ response.message.what = ExpectedErrors(env.fields)
        /\ ExpectedErrors(env.fields) = <<>> =>
            /\ response.message.kind # "Validation errors"
            /\ response.statusCode # 400
        /\ ValidateInputs(org_id, subscriptions, region, case_id) = <<>>
             <=> ExpectedErrors(env.fields) = <<>>

C17_Witness ==
    /\ Validated
    /\ run = 1
    /\ response.statusCode = 400
    /\ response.message.what =
         <<"Missing required field: org_id", "Missing required field: case_id">>
    /\ env.fields.case_id = PyStr(<<>>)

\* C18: get_database_config fails, and the handler answers 500 with the
\* error's message, when the databases blob is absent, when the upper-cased
\* region is no key of the blob (the message lists the configured keys), and
\* when dbname, user, password or host is empty (the message lists the missing
\* names); a missing port alone is no failure and gives 5432, and the region
\* is looked up without regard to case.
LetterPairs == {<<"e", "E">>, <<"u", "U">>, <<"x", "X">>}

SameButCase(a, b) ==
    /\ Len(a) = Len(b)
    /\ \A i \in DOMAIN a : a[i] = b[i] \/ <<a[i], b[i]>> \in LetterPairs

RegionConfigured ==
    \E i \in DOMAIN environ.regions : SameButCase(region.val, environ.regions[i])

ConfigAsked ==
    /\ hpc = "done"
    /\ hexc = "none"
    /\ response.message.kind \notin {"Invalid JSON", "Validation errors"}

C18_ConfigurationErrors ==
    ConfigAsked =>
        /\ ~environ.present =>
            /\ response.statusCode = 500
            /\ response.message.kind =
                 "No databases configuration found in SSM parameters"
        /\ (environ.present /\ ~RegionConfigured) =>
            /\ response.statusCode = 500
            /\ response.message.kind = "Unsupported database region"
            /\ Range(environ.regions) \subseteq Range(response.message.what)
        /\ (environ.present /\ RegionConfigured /\ environ.empty # {}) =>
            /\ response.statusCode = 500
            /\ response.message.kind = "Missing database configuration parameters"
            /\ Range(response.message.what) = environ.empty
        /\ (environ.present /\ RegionConfigured /\ environ.empty = {}) =>
            /\ conn # "None" \/ caught = "connect"
            /\ GetDatabaseConfig(region, environ).kind = "ok"
            /\ environ.port = NULL =>
                 GetDatabaseConfig(region, environ).port = 5432

C18_Witness ==
    /\ ConfigAsked
    /\ region.val = <<"X", "X">>
    /\ environ.present
    /\ response.statusCode = 500
    /\ response.message.what = <<<<"X", "X">>, <<"E", "U">>>>

\* C19 as stated: the cursor the run opened is closed on every exit path,
\* the paths on which a step raises after the cursor was opened included.
C19_CursorClosedOnEveryExit ==
    (ppc \in {"returned", "raised"} /\ cur # "None") => cur = "closed"

\* C20 as stated: the report format_results makes of a returned result says
\* that the changes were committed, in its banner and in its closing note,
\* exactly when the result's committed flag is true, the production runs that
\* found no eligible row included.
C20_ReportReflectsCommitState ==
    \A i \in DOMAIN notes :
        notes[i].text.kind = "report" =>
            LET report == notes[i].text.what[1]
            IN  /\ report.closing = "All changes have been committed to the database."
                    <=> result.committed
                /\ report.banner = "PRODUCTION MODE - Changes were committed"
                    <=> result.committed

\* C21 as stated: in every returned result updated_basket_ids and
\* updated_macd_ids hold no duplicate, hold exactly the non-null values of the
\* eligible rows (never a value of skipped rows only), in the order of the
\* values' first occurrence among the fetched rows; an UPDATE is issued only
\* when its list is non-empty.
FirstAmong(rowset, field, v) ==
    CHOOSE j \in rowset :
        /\ macd0[j][field] = v
        /\ \A k \in rowset : macd0[k][field] = v => j <= k

FetchedRows0 == {j \in DOMAIN macd0 : Fetched0(j)}
EligibleRows0 == {j \in DOMAIN macd0 : EligibleRow0(j)}

NoDuplicates(list) ==
    \A i, j \in DOMAIN list : list[i] = list[j] => i = j

ListedFrom(list, field, rowset) ==
    /\ NoDuplicates(list)
    /\ Range(list) = {macd0[j][field] : j \in EligibleRows0} \ {NULL}
    /\ \A i, j \in DOMAIN list :
        i < j => FirstAmong(rowset, field, list[i]) < FirstAmong(rowset, field, list[j])

UpdatesOnlyForListedIds ==
    /\ Positions(dblog, "UPDATE order_request") # {} =>
         result.updated_basket_ids # <<>>
    /\ Positions(dblog, "UPDATE macd_request") # {} =>
         result.updated_macd_ids # <<>>

C21_Original ==
    /\ UpdatesOnlyForListedIds
    /\ ppc = "returned" =>
        /\ ListedFrom(result.updated_basket_ids, "basket_id", FetchedRows0)
        /\ ListedFrom(result.updated_macd_ids, "id", FetchedRows0)

\* C21 amended: the same, the order being that of the values' first
\* occurrence among the eligible rows.
C21_Amended ==
    /\ UpdatesOnlyForListedIds
    /\ ppc = "returned" =>
        /\ ListedFrom(result.updated_basket_ids, "basket_id", EligibleRows0)
        /\ ListedFrom(result.updated_macd_ids, "id", EligibleRows0)

C21_Witness ==
    /\ ppc = "returned"
    /\ Len(result.updated_basket_ids) = 2
    /\ Cardinality(EligibleRows0) = 3
    /\ \E j \in EligibleRows0 : macd0[j].id = NULL
    /\ Positions(dblog, "UPDATE order_request") # {}

\* C22 as stated: the response never misreports persistence: when the
\* transaction was committed the response is 200 with committed = true and
\* the success report was posted; when the response is 400 or 500, or a
\* failure note was posted, nothing the invocation changed is persisted.
Committed ==
    /\ Positions(dblog, "commit") # {}
    /\ caught # "commit"

C22_ResponseAgreesWithPersistence ==
    hpc = "done" =>
        /\ Committed =>
            /\ response.statusCode = 200
            /\ response.extra[1].committed = TRUE
            /\ \E i \in DOMAIN notes : notes[i].text.kind = "report"
        /\ (\/ response.statusCode \in {400, 500}
            \/ \E i \in DOMAIN notes : notes[i].text.kind = "failure") =>
            /\ order_request = order0
            /\ macd_request = macd0

\* C23: after a production run that committed, a production run with the
\* same org_id and subscriptions on the resulting database leaves every
\* order_request and macd_request row unchanged; when every eligible row of
\* the first run had a non-null id, the second run finds no eligible row and
\* returns committed = false with zero updates.
EveryEligibleRowHadAnId ==
    \A j \in DOMAIN first[1].macd0 :
        (Fetched0(j) /\ first[1].macd0[j].status = "posted") =>
            first[1].macd0[j].id # NULL

C23_SecondRunChangesNothing ==
    invocation = 2 =>
        /\ order_request = first[1].order_request
        /\ macd_request = first[1].macd_request
        /\ (ppc = "returned" /\ EveryEligibleRowHadAnId) =>
            /\ result.eligible_count = 0
            /\ result.committed = FALSE
            /\ result.order_requests_updated = 0
            /\ result.macd_requests_updated = 0
            /\ Positions(dblog, "commit") = {}

C23_Witness ==
    /\ invocation = 2
    /\ ppc = "returned"
    /\ EveryEligibleRowHadAnId
    /\ first[1].order_request # OrderTable
    /\ \E j \in DOMAIN macd_request : macd_request[j].status = "posted1"
    /\ result.eligible_count = 0

\* C24: an invocation calls write_internal_note at most once, never for both
\* the success report and a failure note, and it calls it exactly when it
\* reached the processing step, that is when its input was valid and its
\* database configuration resolved.
ReachedProcess == ppc # "idle"

C24_AtMostOneNote ==
    /\ Len(notes) <= 1
    /\ Len(notes) = 1 => ReachedProcess
    /\ \A i \in DOMAIN notes :
        /\ notes[i].ticket = case_id
        /\ notes[i].text.kind = "report" <=> ppc = "returned"
        /\ notes[i].text.kind = "failure" <=> ppc = "raised"
    /\ hpc = "done" =>
        /\ Len(notes) = 1 <=> ReachedProcess
        /\ ReachedProcess <=>
            /\ hexc = "none"
            /\ response.message.kind # "Invalid JSON"
            /\ ValidateInputs(org_id, subscriptions, region, case_id) = <<>>
            /\ GetDatabaseConfig(region, environ).kind = "ok"

C24_Witness ==
    /\ hpc = "done"
    /\ ppc = "raised"
    /\ Len(notes) = 1
    /\ notes[1].text.kind = "failure"
    /\ tklog = <<"GET departments.json", "PUT tickets/update_many",
                 "PUT tickets/update_many", "PUT tickets/update_many">>

====
